---- MODULE Spec2Model ----
(***************************************************************************)
(* fileseeker.py: scan stores a content hash per file of some directory    *)
(* trees in a JSON snapshot; detect loads a snapshot, walks the same roots *)
(* again and writes a JSON artifact classifying every file.                *)
(*                                                                         *)
(* The model keeps a small file system (directories, files, permissions),  *)
(* runs scan and detect on it as the code runs them (loop by loop, an      *)
(* uncaught exception ending the run before the artifact is written) and   *)
(* records what each run saw and produced.                                 *)
(***************************************************************************)
EXTENDS Integers, Sequences, FiniteSets, TLC

VARIABLES fs, texts, lastScan, prevScan, lastDetect, envSteps, runs

vars == <<fs, texts, lastScan, prevScan, lastDetect, envSteps, runs>>

(***************************************************************************)
(* Bounds of the exploration.                                              *)
(***************************************************************************)
\* changes made to the tree by someone other than scan and detect
MaxEnv == 2
\* runs of scan or detect
MaxRuns == 2

(***************************************************************************)
(* The file system universe.  "." is the working directory, outside every  *)
(* scanned root; it always exists.                                         *)
(***************************************************************************)
Cwd == "."
DirOrder == <<"A", "A/s", "A/t", "B">>
AllDirs == {DirOrder[i] : i \in 1..Len(DirOrder)}
Parent(d) == IF d \in {"A/s", "A/t"} THEN "A" ELSE ""

\* names of ordinary files, and names used for the result artifacts
NameOrder == <<"f", "g", "snap", "diff">>
AllNames == {NameOrder[i] : i \in 1..Len(NameOrder)}
Paths == (AllDirs \cup {Cwd}) \X AllNames

\* File contents are numbered.  0: no such file.  1..NumBytes: the byte
\* sequence ByteContents[c].  Above: the JSON text of texts[c - NumBytes].
ByteContents == << <<104, 10>>,        \* "h\n"
                   <<104, 13, 10>>,    \* "h\r\n"
                   <<119>>,            \* "w"
                   <<255>> >>          \* not UTF-8
NumBytes == Len(ByteContents)

Init0 ==
    [dirs |-> {"A", "A/s", "B"},
     unlistable |-> {},
     files |-> [p \in Paths |->
                  IF p = <<"A", "f">> THEN 1
                  ELSE IF p \in {<<"A/s", "g">>, <<Cwd, "diff">>} THEN 3 ELSE 0],
     unreadable |-> {}]

DirExists(d, t) == d = Cwd \/ d \in t.dirs
IsFile(p, t) == t.files[p] # 0

\* the tree without the working directory: what a scan of roots can see
Tree(t) ==
    [dirs |-> t.dirs, unlistable |-> t.unlistable,
     files |-> [p \in AllDirs \X AllNames |-> t.files[p]],
     unreadable |-> {p \in t.unreadable : p[1] \in AllDirs}]

(***************************************************************************)
(* Python dicts keyed by strings.                                          *)
(***************************************************************************)
EmptyDict == [k \in {} |-> ""]
DictSet(d, k, v) == (k :> v) @@ d

(***************************************************************************)
(* os.walk(top): top-down, the directories it can list.  A directory that  *)
(* is missing or cannot be listed yields nothing (onerror is None).        *)
(***************************************************************************)
RECURSIVE WalkAll(_, _)
SubDirs(top, t) == SelectSeq(DirOrder, LAMBDA d : d \in t.dirs /\ Parent(d) = top)
WalkAll(tops, t) ==
    IF tops = <<>> THEN <<>>
    ELSE LET top == Head(tops)
         IN (IF top \in t.dirs /\ top \notin t.unlistable
             THEN <<top>> \o WalkAll(SubDirs(top, t), t)
             ELSE <<>>) \o WalkAll(Tail(tops), t)
Walk(top, t) == WalkAll(<<top>>, t)

\* the filenames os.walk reports for a directory
ListFiles(dirpath, t) ==
    SelectSeq(NameOrder, LAMBDA n : t.files[<<dirpath, n>>] # 0)

Range(s) == {s[i] : i \in 1..Len(s)}

(***************************************************************************)
(* open(path, 'r').read(): the bytes decoded as UTF-8 (one- and two-byte   *)
(* sequences are modelled), then universal newlines: "\r\n" and "\r"       *)
(* become "\n".                                                            *)
(***************************************************************************)
RECURSIVE Utf8Decode(_)
Utf8Decode(b) ==
    IF b = <<>> THEN [raised |-> FALSE, text |-> <<>>]
    ELSE IF b[1] < 128
    THEN LET r == Utf8Decode(Tail(b))
         IN [raised |-> r.raised, text |-> <<b[1]>> \o r.text]
    ELSE IF b[1] \in 194..223 /\ Len(b) >= 2 /\ b[2] \in 128..191
    THEN LET r == Utf8Decode(Tail(Tail(b)))
         IN [raised |-> r.raised,
             text |-> <<(b[1] - 192) * 64 + (b[2] - 128)>> \o r.text]
    ELSE [raised |-> TRUE, text |-> <<>>]

RECURSIVE Newlines(_)
Newlines(s) ==
    IF s = <<>> THEN <<>>
    ELSE IF s[1] = 13 /\ Len(s) >= 2 /\ s[2] = 10
    THEN <<10>> \o Newlines(Tail(Tail(s)))
    ELSE IF s[1] = 13 THEN <<10>> \o Newlines(Tail(s))
    ELSE <<s[1]>> \o Newlines(Tail(s))

\* str.encode('utf-8')
RECURSIVE Utf8Encode(_)
Utf8Encode(s) ==
    IF s = <<>> THEN <<>>
    ELSE (IF s[1] < 128 THEN <<s[1]>>
          ELSE <<192 + (s[1] \div 64), 128 + (s[1] % 64)>>) \o Utf8Encode(Tail(s))

\* hashlib.sha256(..).hexdigest(): a string that is a one-to-one function
\* of the bytes hashed (SHA-256 taken as collision free)
RECURSIVE Sha256Hex(_)
Sha256Hex(b) ==
    IF b = <<>> THEN "sha256" ELSE Sha256Hex(SubSeq(b, 1, Len(b) - 1)) \o "." \o ToString(b[Len(b)])

\* what the text-mode read hands to the hash
TextToHash(text) == Sha256Hex(Utf8Encode(text))
ReadText(bytes) ==
    LET r == Utf8Decode(bytes)
    IN [raised |-> r.raised, text |-> Newlines(r.text)]

\* with open(path, 'r') as f: sha256(f.read().encode('utf-8')).hexdigest()
\* raised: the file cannot be opened, or its bytes are not UTF-8.
\* A JSON artifact is ASCII; distinct artifacts have distinct digests.
HashFile(p, t) ==
    LET c == t.files[p]
    IN IF c = 0 \/ p \in t.unreadable THEN [raised |-> TRUE, hash |-> ""]
       ELSE IF c > NumBytes
       THEN [raised |-> FALSE, hash |-> "sha256.json." \o ToString(c - NumBytes)]
       ELSE LET r == ReadText(ByteContents[c])
            IN [raised |-> r.raised,
                hash |-> IF r.raised THEN "" ELSE TextToHash(r.text)]

(***************************************************************************)
(* json.dump / json.load of a dict of dicts of dicts of strings.  The JSON *)
(* text of a value is kept in texts; equal values have equal texts.        *)
(***************************************************************************)
TextIndex(value, tx) ==
    IF \E i \in 1..Len(tx) : tx[i] = value
    THEN CHOOSE i \in 1..Len(tx) : tx[i] = value
    ELSE Len(tx) + 1
Interned(value, tx) ==
    IF \E i \in 1..Len(tx) : tx[i] = value THEN tx ELSE Append(tx, value)

\* a slip: the result lands in the first scanned root instead
ResultPathInRoot(result_fp) ==
    IF result_fp[1] = Cwd THEN <<"A", result_fp[2]>> ELSE result_fp

\* the path open(result_fp, 'w') opens
ResultPath(result_fp) == result_fp

\* with open(result_fp, 'w') as f: json.dump(value, f, indent=4)
JsonDump(value, result_fp, t, tx) ==
    LET p == ResultPath(result_fp)
    IN IF ~DirExists(p[1], t) \/ p \in t.unreadable
       THEN [raised |-> TRUE, fs |-> t, texts |-> tx]
       ELSE [raised |-> FALSE,
             fs |-> [t EXCEPT !.files[p] = NumBytes + TextIndex(value, tx)],
             texts |-> Interned(value, tx)]

\* with open(scan_result_fp, 'r') as f: json.load(f)
JsonLoad(p, t, tx) ==
    LET c == t.files[p]
    IN IF c = 0 \/ p \in t.unreadable \/ c <= NumBytes
       THEN [raised |-> TRUE, value |-> EmptyDict]
       ELSE [raised |-> FALSE, value |-> tx[c - NumBytes]]

(***************************************************************************)
(* scan(directories, result_fp)                                            *)
(***************************************************************************)
Unbound == "<unbound>"

\* the hash scan stores for a file
ScanHash(p, t) == HashFile(p, t)

RECURSIVE ScanFiles(_, _, _, _, _)
ScanFiles(filenames, directory, dirpath, st, t) ==
    IF filenames = <<>> THEN st
    ELSE LET filename == Head(filenames)
             r == ScanHash(<<dirpath, filename>>, t)
         IN IF r.raised THEN [st EXCEPT !.raised = TRUE]
            ELSE ScanFiles(Tail(filenames), directory, dirpath,
                    [st EXCEPT !.dict[directory][dirpath] =
                                   DictSet(@, filename, r.hash)], t)

RECURSIVE ScanWalk(_, _, _, _)
ScanWalk(dirpaths, directory, st, t) ==
    IF dirpaths = <<>> \/ st.raised THEN st
    ELSE LET dirpath == Head(dirpaths)
             st1 == [st EXCEPT !.dict[directory] = DictSet(@, dirpath, EmptyDict),
                               !.dirpath = dirpath]
         IN ScanWalk(Tail(dirpaths), directory,
                     ScanFiles(ListFiles(dirpath, t), directory, dirpath, st1, t), t)

RECURSIVE ScanRoots(_, _, _)
ScanRoots(directories, st, t) ==
    IF directories = <<>> \/ st.raised THEN st
    ELSE LET directory == Head(directories)
         IN IF directory \notin t.dirs
            THEN ScanRoots(Tail(directories), st, t)
            ELSE LET st1 == [st EXCEPT !.dict = DictSet(@, directory, EmptyDict)]
                     st2 == ScanWalk(Walk(directory, t), directory, st1, t)
                     \* logging.debug(f'Input directory {dirpath} was scanned')
                     st3 == IF st2.dirpath = Unbound
                            THEN [st2 EXCEPT !.raised = TRUE] ELSE st2
                 IN ScanRoots(Tail(directories), st3, t)

ScanDict(directories, t) ==
    ScanRoots(directories, [raised |-> FALSE, dict |-> EmptyDict, dirpath |-> Unbound], t)

(***************************************************************************)
(* detect_files(filenames, directory, scan_result_copy, directory_path,    *)
(*              directory_path2)                                           *)
(***************************************************************************)
KeysSeq(d, order) == SelectSeq(order, LAMBDA k : k \in DOMAIN d)

\* a slip: detect alone reads the file in binary mode
DetectHashRaw(p, t) ==
    LET c == t.files[p]
    IN IF c = 0 \/ p \in t.unreadable THEN [raised |-> TRUE, hash |-> ""]
       ELSE IF c > NumBytes THEN HashFile(p, t)
       ELSE [raised |-> FALSE, hash |-> Sha256Hex(ByteContents[c])]

\* the hash detect recomputes for a live file
DetectHash(p, t) == HashFile(p, t)

\* a slip: the two branches swapped
ClassifyInverted(string_hash, stored) ==
    IF string_hash = stored THEN "MODIFIED" ELSE "UNMODIFIED"

\* File unmodified / File modified
Classify(string_hash, stored) ==
    IF string_hash = stored THEN "UNMODIFIED" ELSE "MODIFIED"

\* Loop through filenames in current state of directory structure
RECURSIVE DetectLive(_, _, _, _, _, _)
DetectLive(filenames, directory, st, directory_path, directory_path2, t) ==
    IF filenames = <<>> THEN st
    ELSE LET filename == Head(filenames)
         IN IF filename \in DOMAIN directory[directory_path2]
            THEN LET r == DetectHash(<<directory_path2, filename>>, t)
                 IN IF r.raised THEN [st EXCEPT !.raised = TRUE]
                    ELSE DetectLive(Tail(filenames), directory,
                           [st EXCEPT !.copy[directory_path][directory_path2] =
                              DictSet(@, filename,
                                  Classify(r.hash, directory[directory_path2][filename]))],
                           directory_path, directory_path2, t)
            ELSE DetectLive(Tail(filenames), directory,
                   [st EXCEPT !.copy[directory_path][directory_path2] =
                                  DictSet(@, filename, "ADDED")],
                   directory_path, directory_path2, t)

\* a slip: the second loop left out
DetectStoredSkipped(stored, filenames_current, entry) == entry

\* Loop through filenames from scan result
RECURSIVE DetectStored(_, _, _)
DetectStored(stored, filenames_current, entry) ==
    IF stored = <<>> THEN entry
    ELSE DetectStored(Tail(stored), filenames_current,
            IF Head(stored) \notin Range(filenames_current)
            THEN DictSet(entry, Head(stored), "DELETED") ELSE entry)

DetectFiles(filenames, directory, st, directory_path, directory_path2, t) ==
    LET st1 == DetectLive(filenames, directory, st, directory_path, directory_path2, t)
    IN IF st1.raised THEN st1
       ELSE [st1 EXCEPT !.copy[directory_path][directory_path2] =
               DetectStored(KeysSeq(directory[directory_path2], NameOrder), filenames, @)]

(***************************************************************************)
(* detect(scan_result_fp, result_fp)                                       *)
(***************************************************************************)
\* a slip: the new directory gets its entry but not its files
AddedDirectoryEmpty(filenames, entry) == entry

\* Directory added
RECURSIVE AddedDirectory(_, _)
AddedDirectory(filenames, entry) ==
    IF filenames = <<>> THEN entry
    ELSE AddedDirectory(Tail(filenames), DictSet(entry, Head(filenames), "ADDED"))

\* Directory deleted: every stored file of it
RECURSIVE DeletedDirectory(_, _)
DeletedDirectory(stored, entry) ==
    IF stored = <<>> THEN entry
    ELSE DeletedDirectory(Tail(stored), DictSet(entry, Head(stored), "DELETED"))

\* Recursively walk through current state of directory structure
RECURSIVE DetectWalk(_, _, _, _, _)
DetectWalk(dirpaths, directory, st, directory_path, t) ==
    IF dirpaths = <<>> \/ st.raised THEN st
    ELSE LET directory_path2 == Head(dirpaths)
             filenames == ListFiles(directory_path2, t)
         IN DetectWalk(Tail(dirpaths), directory,
              IF directory_path2 \in DOMAIN directory
              THEN DetectFiles(filenames, directory, st, directory_path, directory_path2, t)
              ELSE [st EXCEPT !.copy[directory_path] =
                      DictSet(@, directory_path2, AddedDirectory(filenames, EmptyDict))],
              directory_path, t)

\* Loop through directories from scan result
RECURSIVE DetectRemoved(_, _, _, _)
DetectRemoved(stored_dirs, directory, dirpaths_current, rootcopy) ==
    IF stored_dirs = <<>> THEN rootcopy
    ELSE LET directory_path2 == Head(stored_dirs)
         IN DetectRemoved(Tail(stored_dirs), directory, dirpaths_current,
              IF directory_path2 \notin Range(dirpaths_current)
              THEN [rootcopy EXCEPT ![directory_path2] =
                      DeletedDirectory(KeysSeq(directory[directory_path2], NameOrder), @)]
              ELSE rootcopy)

\* Loop through input directories in scan result
RECURSIVE DetectRoots(_, _, _, _)
DetectRoots(root_paths, scan_result, st, t) ==
    IF root_paths = <<>> \/ st.raised THEN st
    ELSE LET directory_path == Head(root_paths)
             directory == scan_result[directory_path]
             dirpaths_current == Walk(directory_path, t)
             st1 == DetectWalk(dirpaths_current, directory, st, directory_path, t)
         IN DetectRoots(Tail(root_paths), scan_result,
              IF st1.raised THEN st1
              ELSE [st1 EXCEPT !.copy[directory_path] =
                      DetectRemoved(KeysSeq(directory, DirOrder), directory,
                                    dirpaths_current, @)],
              t)

DetectDict(scan_result, t) ==
    DetectRoots(KeysSeq(scan_result, DirOrder), scan_result,
                [raised |-> FALSE, copy |-> scan_result], t)

(***************************************************************************)
(* The runs.  Each run is one step: the program is single threaded and     *)
(* the tree is taken not to change while a run walks it.                   *)
(***************************************************************************)
RootChoices ==
    {<<>>, <<"A">>, <<"A", "B">>, <<"B", "A">>, <<"A", "A">>}
ScanDests == {<<Cwd, "snap">>, <<"A", "snap">>}
DetectSources == {<<Cwd, "snap">>, <<"A", "snap">>, <<"A", "f">>}
DetectDests == {<<Cwd, "diff">>}

NoScan ==
    [no |-> 0, roots |-> <<>>, dest |-> <<Cwd, "snap">>, pre |-> Init0,
     outcome |-> "none", snap |-> EmptyDict, touched |-> FALSE]
NoDetect ==
    [after |-> 0, src |-> <<Cwd, "snap">>, dest |-> <<Cwd, "diff">>, pre |-> Init0,
     outcome |-> "none", loaded |-> EmptyDict, result |-> EmptyDict,
     destBefore |-> 0, destAfter |-> 0]

Init ==
    /\ fs = Init0
    /\ texts = <<>>
    /\ lastScan = NoScan
    /\ prevScan = NoScan
    /\ lastDetect = NoDetect
    /\ envSteps = 0
    /\ runs = 0

Scan(directories, result_fp) ==
    /\ runs < MaxRuns
    /\ LET st == ScanDict(directories, fs)
           w == IF st.raised THEN [raised |-> TRUE, fs |-> fs, texts |-> texts]
                ELSE JsonDump(st.dict, result_fp, fs, texts)
       IN /\ fs' = w.fs
          /\ texts' = w.texts
          /\ lastScan' = [no |-> lastScan.no + 1, roots |-> directories,
                          dest |-> result_fp, pre |-> fs,
                          outcome |-> IF w.raised THEN "raised" ELSE "written",
                          snap |-> IF w.raised THEN EmptyDict ELSE st.dict,
                          touched |-> FALSE]
    /\ prevScan' = lastScan
    /\ runs' = runs + 1
    /\ UNCHANGED <<lastDetect, envSteps>>

Detect(scan_result_fp, result_fp) ==
    /\ runs < MaxRuns
    /\ LET valid == IsFile(scan_result_fp, fs)
           ld == IF valid THEN JsonLoad(scan_result_fp, fs, texts)
                 ELSE [raised |-> FALSE, value |-> EmptyDict]
           st == IF valid /\ ~ld.raised THEN DetectDict(ld.value, fs)
                 ELSE [raised |-> ld.raised, copy |-> EmptyDict]
           w == IF valid /\ ~st.raised THEN JsonDump(st.copy, result_fp, fs, texts)
                ELSE [raised |-> st.raised, fs |-> fs, texts |-> texts]
       IN /\ fs' = w.fs
          /\ texts' = w.texts
          /\ lastDetect' = [after |-> lastScan.no, src |-> scan_result_fp,
                            dest |-> result_fp, pre |-> fs,
                            outcome |-> IF ~valid THEN "invalid"
                                        ELSE IF w.raised THEN "raised" ELSE "written",
                            loaded |-> ld.value,
                            result |-> IF valid /\ ~w.raised THEN st.copy ELSE EmptyDict,
                            destBefore |-> fs.files[result_fp],
                            destAfter |-> w.fs.files[result_fp]]
          /\ lastScan' = [lastScan EXCEPT !.touched = @ \/ Tree(w.fs) # Tree(fs)]
    /\ runs' = runs + 1
    /\ UNCHANGED <<prevScan, envSteps>>

(***************************************************************************)
(* The environment: whoever else changes the tree between runs.            *)
(***************************************************************************)
Env(t) ==
    /\ envSteps < MaxEnv /\ runs < MaxRuns
    /\ fs' = t
    /\ envSteps' = envSteps + 1
    /\ lastScan' = [lastScan EXCEPT !.touched = (lastScan.no > 0)]
    /\ UNCHANGED <<texts, prevScan, lastDetect, runs>>

\* the files the environment creates or overwrites
EnvFiles == {<<"A", "f">>, <<"A", "g">>, <<"A/s", "g">>}

RECURSIVE IsUnder(_, _)
IsUnder(d, top) == d = top \/ (Parent(d) # "" /\ IsUnder(Parent(d), top))

EnvWrite(p, c) ==
    /\ p[1] \in fs.dirs /\ fs.files[p] # c
    /\ Env([fs EXCEPT !.files[p] = c])

EnvRemove(p) ==
    /\ fs.files[p] # 0
    /\ Env([fs EXCEPT !.files[p] = 0, !.unreadable = @ \ {p}])

EnvRmdir(d) ==
    /\ d \in fs.dirs
    /\ Env([dirs |-> {e \in fs.dirs : ~IsUnder(e, d)},
            unlistable |-> {e \in fs.unlistable : ~IsUnder(e, d)},
            files |-> [p \in Paths |-> IF IsUnder(p[1], d) THEN 0 ELSE fs.files[p]],
            unreadable |-> {p \in fs.unreadable : ~IsUnder(p[1], d)}])

EnvMkdir(d) ==
    /\ d \notin fs.dirs /\ (Parent(d) = "" \/ Parent(d) \in fs.dirs)
    /\ Env([fs EXCEPT !.dirs = @ \cup {d}])

\* a directory without subdirectories moved to a free path beside it
EnvRename(d, e) ==
    /\ d \in fs.dirs /\ e \notin fs.dirs /\ Parent(d) = Parent(e) /\ Parent(d) # ""
    /\ \A x \in fs.dirs : Parent(x) # d
    /\ Env([dirs |-> (fs.dirs \ {d}) \cup {e},
            unlistable |-> (fs.unlistable \ {d}) \cup
                           (IF d \in fs.unlistable THEN {e} ELSE {}),
            files |-> [p \in Paths |->
                          IF p[1] = e THEN fs.files[<<d, p[2]>>]
                          ELSE IF p[1] = d THEN 0 ELSE fs.files[p]],
            unreadable |-> {p \in fs.unreadable : p[1] # d} \cup
                           {<<e, n>> : n \in {m \in AllNames : <<d, m>> \in fs.unreadable}}])

EnvChmodFile(p) ==
    /\ fs.files[p] # 0 /\ p \notin fs.unreadable
    /\ Env([fs EXCEPT !.unreadable = @ \cup {p}])

EnvChmodDir(d) ==
    /\ d \in fs.dirs /\ d \notin fs.unlistable
    /\ Env([fs EXCEPT !.unlistable = @ \cup {d}])

Next ==
    \/ \E directories \in RootChoices, result_fp \in ScanDests :
          Scan(directories, result_fp)
    \/ \E scan_result_fp \in DetectSources, result_fp \in DetectDests :
          Detect(scan_result_fp, result_fp)
    \/ \E p \in EnvFiles, c \in 1..NumBytes : EnvWrite(p, c)
    \/ \E p \in AllDirs \X AllNames : EnvRemove(p)
    \/ \E d \in AllDirs : EnvRmdir(d)
    \/ \E d \in AllDirs : EnvMkdir(d)
    \/ \E d, e \in AllDirs : EnvRename(d, e)
    \/ \E p \in AllDirs \X AllNames : EnvChmodFile(p)
    \/ \E d \in AllDirs : EnvChmodDir(d)

Spec == Init /\ [][Next]_vars

(***************************************************************************)
(* What the claims speak of.                                               *)
(***************************************************************************)
Tokens == {"UNMODIFIED", "MODIFIED", "ADDED", "DELETED"}
TreePaths == AllDirs \X AllNames

\* the filenames a directory holds, and the directories a fresh walk visits
LiveNames(dir, t) == {n \in AllNames : t.files[<<dir, n>>] # 0}
Visited(root, t) == Range(Walk(root, t))

\* every leaf of a root -> directory -> filename dict
Leaves(d) == {d[r][dir][n] : <<r, dir, n>> \in
                 {x \in (DOMAIN d) \X AllDirs \X AllNames :
                     x[2] \in DOMAIN d[x[1]] /\ x[3] \in DOMAIN d[x[1]][x[2]]}}
SameKeys(d, e) ==
    /\ DOMAIN d = DOMAIN e
    /\ \A r \in DOMAIN d :
          /\ DOMAIN d[r] = DOMAIN e[r]
          /\ \A dir \in DOMAIN d[r] : DOMAIN d[r][dir] = DOMAIN e[r][dir]

\* the part of the tree under the given roots
UnderRoots(dir, roots) == \E r \in Range(roots) : IsUnder(dir, r)
TreeUnder(t, roots) ==
    [dirs |-> {d \in t.dirs : UnderRoots(d, roots)},
     unlistable |-> {d \in t.unlistable : UnderRoots(d, roots)},
     files |-> [p \in TreePaths |-> IF UnderRoots(p[1], roots) THEN t.files[p] ELSE 0],
     unreadable |-> {p \in t.unreadable : UnderRoots(p[1], roots)}]

DetectWrote == lastDetect.outcome = "written"
\* the last detect ran on the snapshot the last scan wrote
DetectOfLastScan ==
    /\ lastScan.outcome = "written"
    /\ lastDetect.outcome # "none"
    /\ lastDetect.after = lastScan.no
    /\ lastDetect.src = lastScan.dest
    /\ lastDetect.loaded = lastScan.snap

\* C1: in every DiffResult detect writes, a directory that is stored and
\* visited by the fresh walk has exactly the union of the stored and the
\* live filenames as keys, each classified UNMODIFIED (in both, hashes
\* equal), MODIFIED (in both, hashes differ), ADDED (live only) or DELETED
\* (stored only).
C1_KnownDirectory ==
    DetectWrote =>
      \A root \in DOMAIN lastDetect.loaded :
        \A dir \in DOMAIN lastDetect.loaded[root] \cap Visited(root, lastDetect.pre) :
          LET stored == lastDetect.loaded[root][dir]
              live == LiveNames(dir, lastDetect.pre)
              out == lastDetect.result[root][dir]
          IN /\ DOMAIN out = DOMAIN stored \cup live
             /\ \A n \in DOMAIN out :
                  out[n] = IF n \in live /\ n \in DOMAIN stored
                           THEN IF HashFile(<<dir, n>>, lastDetect.pre).hash = stored[n]
                                THEN "UNMODIFIED" ELSE "MODIFIED"
                           ELSE IF n \in live THEN "ADDED" ELSE "DELETED"

\* a known directory with a modified and an added file, beside a known
\* directory whose file is unmodified
C1_Witness ==
    /\ DetectWrote
    /\ \E root \in DOMAIN lastDetect.loaded :
         \E dir, dir2 \in DOMAIN lastDetect.loaded[root] \cap Visited(root, lastDetect.pre) :
            /\ \E n, m \in DOMAIN lastDetect.result[root][dir] :
                  /\ lastDetect.result[root][dir][n] = "MODIFIED"
                  /\ lastDetect.result[root][dir][m] = "ADDED"
            /\ \E n \in DOMAIN lastDetect.result[root][dir2] :
                  lastDetect.result[root][dir2][n] = "UNMODIFIED"

\* C2: in every DiffResult detect writes, a directory the fresh walk visits
\* that is not stored has an entry with every live file ADDED, and a stored
\* directory the fresh walk does not visit has exactly its stored filenames
\* as keys, all DELETED.
C2_NewAndRemovedDirectories ==
    DetectWrote =>
      \A root \in DOMAIN lastDetect.loaded :
        LET stored == lastDetect.loaded[root]
            walked == Visited(root, lastDetect.pre)
            out == lastDetect.result[root]
        IN /\ \A dir \in walked \ DOMAIN stored :
                /\ dir \in DOMAIN out
                /\ DOMAIN out[dir] = LiveNames(dir, lastDetect.pre)
                /\ \A n \in DOMAIN out[dir] : out[dir][n] = "ADDED"
           /\ \A dir \in DOMAIN stored \ walked :
                /\ dir \in DOMAIN out
                /\ DOMAIN out[dir] = DOMAIN stored[dir]
                /\ \A n \in DOMAIN out[dir] : out[dir][n] = "DELETED"

\* one detect meets a new directory holding a file and a removed directory
\* that held one
C2_Witness ==
    /\ DetectWrote
    /\ \E root \in DOMAIN lastDetect.loaded :
         /\ \E dir \in Visited(root, lastDetect.pre) \ DOMAIN lastDetect.loaded[root] :
               LiveNames(dir, lastDetect.pre) # {}
         /\ \E dir \in DOMAIN lastDetect.loaded[root] \ Visited(root, lastDetect.pre) :
               DOMAIN lastDetect.loaded[root][dir] # {}

\* C3: detect on the snapshot scan wrote of a tree that has not changed
\* since writes a DiffResult with the snapshot's keys and every file
\* UNMODIFIED.
C3_RoundTrip ==
    (/\ DetectOfLastScan
     /\ DetectWrote
     /\ TreeUnder(lastDetect.pre, lastScan.roots) = TreeUnder(lastScan.pre, lastScan.roots))
    => /\ SameKeys(lastDetect.result, lastScan.snap)
       /\ Leaves(lastDetect.result) \subseteq {"UNMODIFIED"}

\* a round trip over a tree with files in two directories, one of them
\* holding "\r\n"
C3_Witness ==
    /\ DetectOfLastScan
    /\ DetectWrote
    /\ TreeUnder(lastDetect.pre, lastScan.roots) = TreeUnder(lastScan.pre, lastScan.roots)
    /\ \E root \in DOMAIN lastScan.snap :
          /\ Cardinality(DOMAIN lastScan.snap[root]) >= 2
          /\ \E dir \in DOMAIN lastScan.snap[root] :
                \E n \in DOMAIN lastScan.snap[root][dir] :
                   lastScan.pre.files[<<dir, n>>] = 2
    /\ Leaves(lastDetect.result) = {"UNMODIFIED"}
\* C4: after a scan, one scanned file's bytes are overwritten with a
\* different byte sequence and nothing else changes; detect then classifies
\* that file MODIFIED and every other file UNMODIFIED.
C4_AnyByteChangeIsModified ==
    \A p \in TreePaths : \A root \in DOMAIN lastScan.snap :
      (/\ DetectOfLastScan
       /\ DetectWrote
       /\ p[1] \in DOMAIN lastScan.snap[root]
       /\ p[2] \in DOMAIN lastScan.snap[root][p[1]]
       /\ lastScan.pre.files[p] \in 1..NumBytes
       /\ lastDetect.pre.files[p] \in 1..NumBytes
       /\ ByteContents[lastScan.pre.files[p]] # ByteContents[lastDetect.pre.files[p]]
       /\ Tree(lastDetect.pre) =
             [Tree(lastScan.pre) EXCEPT !.files[p] = lastDetect.pre.files[p]])
      => /\ lastDetect.result[root][p[1]][p[2]] = "MODIFIED"
         /\ \A r \in DOMAIN lastDetect.result : \A dir \in DOMAIN lastDetect.result[r] :
               \A n \in DOMAIN lastDetect.result[r][dir] :
                  <<dir, n>> # p => lastDetect.result[r][dir][n] = "UNMODIFIED"

\* C5: a scan that meets a file it cannot open, in a directory it walks,
\* still writes the Snapshot, with every readable file of the walked
\* directories recorded and no entry for the unreadable one.
C5_UnreadableFileSkipped ==
    \A p \in TreePaths :
      (/\ lastScan.outcome # "none"
       /\ lastScan.pre.files[p] # 0
       /\ p \in lastScan.pre.unreadable
       /\ \E r \in Range(lastScan.roots) :
             r \in lastScan.pre.dirs /\ p[1] \in Visited(r, lastScan.pre)
       /\ DirExists(lastScan.dest[1], lastScan.pre)
       /\ lastScan.dest \notin lastScan.pre.unreadable)
      => /\ lastScan.outcome = "written"
         /\ \A r \in DOMAIN lastScan.snap : \A dir \in DOMAIN lastScan.snap[r] :
               DOMAIN lastScan.snap[r][dir] =
                  {n \in LiveNames(dir, lastScan.pre) :
                      <<dir, n>> \notin lastScan.pre.unreadable}

\* C6: a detect whose snapshot artifact is missing or is not JSON returns
\* normally and leaves the result destination as it was.
C6_BadSnapshotNotFatal ==
    (/\ lastDetect.outcome # "none"
     /\ lastDetect.pre.files[lastDetect.src] \in 0..NumBytes)
    => /\ lastDetect.outcome = "invalid"
       /\ lastDetect.destAfter = lastDetect.destBefore

\* C7: a detect that loaded its snapshot and meets a stored file it cannot
\* open for re-hashing still writes the DiffResult.
C7_DetectFailureScoped ==
    \A p \in TreePaths : \A root \in DOMAIN lastDetect.loaded :
      (/\ lastDetect.outcome \notin {"none", "invalid"}
       /\ p[1] \in DOMAIN lastDetect.loaded[root] \cap Visited(root, lastDetect.pre)
       /\ p[2] \in DOMAIN lastDetect.loaded[root][p[1]]
       /\ lastDetect.pre.files[p] # 0
       /\ p \in lastDetect.pre.unreadable)
      => lastDetect.outcome = "written"

\* C8: every leaf of the DiffResult artifact detect writes is one of the
\* four tokens.
C8_OnlyTokens ==
    DetectWrote =>
      /\ lastDetect.destAfter > NumBytes
      /\ texts[lastDetect.destAfter - NumBytes] = lastDetect.result
      /\ Leaves(texts[lastDetect.destAfter - NumBytes]) \subseteq Tokens

\* a snapshot with hashes in a removed directory and for a deleted file of
\* a known directory, detected beside a new directory
C8_Witness ==
    /\ DetectWrote
    /\ \E root \in DOMAIN lastDetect.loaded :
         LET stored == lastDetect.loaded[root]
             walked == Visited(root, lastDetect.pre)
         IN /\ \E dir \in DOMAIN stored \ walked : DOMAIN stored[dir] # {}
            /\ \E dir \in walked \ DOMAIN stored : LiveNames(dir, lastDetect.pre) # {}
            /\ \E dir \in DOMAIN stored \cap walked :
                  DOMAIN stored[dir] \ LiveNames(dir, lastDetect.pre) # {}
            /\ Leaves(stored) \cap Tokens = {}

\* C9: in every Snapshot scan writes, the top-level keys are the roots that
\* were directories, and each root's DirectoryMap holds the root itself and
\* exactly the directories the walk of the root reaches.
C9_SnapshotShape ==
    lastScan.outcome = "written" =>
      /\ DOMAIN lastScan.snap = {r \in Range(lastScan.roots) : r \in lastScan.pre.dirs}
      /\ \A r \in DOMAIN lastScan.snap :
            /\ r \in DOMAIN lastScan.snap[r]
            /\ DOMAIN lastScan.snap[r] = Visited(r, lastScan.pre)

\* two scans of the same roots, both written, nobody else touching the
\* tree in between
TwoScans ==
    /\ prevScan.outcome = "written"
    /\ lastScan.outcome = "written"
    /\ prevScan.roots = lastScan.roots
    /\ ~prevScan.touched

\* C10 as stated: two such scans write identical Snapshots, whatever their
\* result destinations.
C10_AnyDestination ==
    TwoScans => prevScan.snap = lastScan.snap

\* C10: two such scans write identical Snapshots when the first run's
\* result destination lies outside the scanned roots.
C10_ScanIdempotent ==
    (TwoScans /\ ~UnderRoots(prevScan.dest[1], prevScan.roots))
    => prevScan.snap = lastScan.snap

\* two scans of a tree with files, the first writing outside the roots and
\* the second inside
C10_Witness ==
    /\ TwoScans
    /\ ~UnderRoots(prevScan.dest[1], prevScan.roots)
    /\ UnderRoots(lastScan.dest[1], lastScan.roots)
    /\ Leaves(prevScan.snap) # {}
    /\ prevScan.snap = lastScan.snap

====
